---- MODULE Spec2Model ----
(***************************************************************************)
(* Model of the moba-mcp bootstrap layer:                                  *)
(*   - scripts/create_sample_db.py : create_sample_database (the fixture   *)
(*     generator of the metadata-only variant);                            *)
(*   - src/moba_mcp/config.py      : ServerConfig (the configuration       *)
(*     resolver, its validators and its path helpers).                     *)
(* Strings that the code converts (upper-casing, URL parsing, path         *)
(* parsing) are sequences of one-character strings.                        *)
(***************************************************************************)
EXTENDS Integers, Sequences, FiniteSets, TLC

VARIABLES
    \* ---- fixture generator (create_sample_db.py)
    pc,            \* 0: not running; i in 1..Len(Program): about to run Program[i]
    outcome,       \* "none" | "returned" | "raised" : how the last run ended
    fault,         \* what the environment refuses during the current run
    dirs,          \* directories that exist
    store,         \* the committed content of test_data/sample.db, or NoFile
    conn,          \* "none" | "open" | "closed"
    pending,       \* rows inserted in the open transaction, per table
    doc,           \* resources/metadata.json, or NoDoc
    clock,         \* datetime.now()
    runs,          \* number of runs started
    trace,         \* store and file operations performed by the current run
    store_before,  \* the store when the current run started
    doc_before,    \* the metadata document when the current run started
    preexisting,   \* the store before the first run
    \* ---- configuration resolver (config.py)
    cpc,           \* "idle" | "input" | "constructed" | "failed"
    source,        \* the values collected from init kwargs / environment / .env
    getenv_url,    \* os.getenv('MCP_SERVER_URL'), empty when unset
    values,        \* the dict handed on by parse_mcp_server_url
    cfg,           \* the ServerConfig record, or NoRecord
    errors,        \* the fields named by the ValidationError
    warnings,      \* number of logging.warning calls
    assigns,       \* number of attribute assignments made by consumers
    cwd,           \* Path.cwd()
    resolved       \* what the path helpers returned when last called

genVars == <<pc, outcome, fault, dirs, store, conn, pending, doc, clock, runs,
             trace, store_before, doc_before, preexisting>>
cfgVars == <<cpc, source, getenv_url, values, cfg, errors, warnings, assigns, cwd,
             resolved>>
vars == <<genVars, cfgVars>>

\* ------------------------------------------------------------------ bounds
MaxRuns == 2
MaxAssign == 1

\* =================================================================
\* Fixture generator
\* =================================================================

\* The store: whether the file exists, which tables it holds and their rows.
NoFile == [file |-> FALSE, tables |-> {}, rows |-> [t \in {} |-> <<>>]]

\* The metadata document when the file does not exist.
NoDoc == [exists |-> FALSE, row_count |-> [t \in {} |-> 0], last_updated |-> 0]

Tables == <<"user_behavior_metadata", "product_performance_metadata",
            "order_logistics_metadata", "user_preferences_metadata",
            "product_supplier_metadata", "order_financial_metadata">>

TableSet == {Tables[i] : i \in 1..Len(Tables)}

\* The constraints of each CREATE TABLE on which INSERT OR IGNORE can conflict:
\* only "id INTEGER PRIMARY KEY AUTOINCREMENT"; user_id / product_id / order_id
\* are declared NOT NULL and nothing more.
UniqueColumns(t) == {"id"}

\* The first column of every tuple of the *_data lists (user_id, product_id,
\* order_id); the other columns carry no constraint.
SeedKeys(t) ==
    CASE t = "user_behavior_metadata"       -> <<1, 2, 3, 4, 5>>
      [] t = "product_performance_metadata" -> <<1, 2, 3, 4, 5, 6, 7, 8, 9, 10>>
      [] t = "order_logistics_metadata"     -> <<1, 2, 3, 4>>
      [] t = "user_preferences_metadata"    -> <<1, 2, 3, 4, 5>>
      [] t = "product_supplier_metadata"    -> <<1, 2, 3, 4, 5, 6, 7, 8, 9, 10>>
      [] t = "order_financial_metadata"     -> <<1, 2, 3, 4>>

\* The "row_count" literals of the metadata dict.
MetadataRowCount(t) ==
    CASE t = "user_behavior_metadata"       -> 5
      [] t = "product_performance_metadata" -> 10
      [] t = "order_logistics_metadata"     -> 4
      [] t = "user_preferences_metadata"    -> 5
      [] t = "product_supplier_metadata"    -> 10
      [] t = "order_financial_metadata"     -> 4

Stmt(op, arg) == [op |-> op, arg |-> arg]

\* The statements of create_sample_database, in program order.
ProgramMetadataFirst ==
    <<Stmt("mkdir", "test_data"), Stmt("mkdir", "resources"),
      Stmt("write_metadata", "resources")>>
    \o <<Stmt("connect", "test_data")>>
    \o [i \in 1..Len(Tables) |-> Stmt("create", Tables[i])]
    \o [i \in 1..Len(Tables) |-> Stmt("insert", Tables[i])]
    \o <<Stmt("commit", ""), Stmt("close", ""), Stmt("return", "")>>

ProgramMetadataBeforeCommit ==
    <<Stmt("mkdir", "test_data"), Stmt("mkdir", "resources"),
      Stmt("connect", "test_data")>>
    \o [i \in 1..Len(Tables) |-> Stmt("create", Tables[i])]
    \o [i \in 1..Len(Tables) |-> Stmt("insert", Tables[i])]
    \o <<Stmt("write_metadata", "resources"), Stmt("commit", ""),
         Stmt("close", ""), Stmt("return", "")>>

Program ==
    <<Stmt("mkdir", "test_data"), Stmt("mkdir", "resources"),
      Stmt("connect", "test_data")>>
    \o [i \in 1..Len(Tables) |-> Stmt("create", Tables[i])]
    \o [i \in 1..Len(Tables) |-> Stmt("insert", Tables[i])]
    \o <<Stmt("commit", ""), Stmt("close", ""),
         Stmt("write_metadata", "resources"), Stmt("return", "")>>

At(op) == pc \in 1..Len(Program) /\ Program[pc].op = op

Faults == {"none", "mkdir_test_data", "mkdir_resources", "connect",
           "readonly", "open_metadata"}

EmptyDb == [file |-> TRUE, tables |-> {}, rows |-> [t \in TableSet |-> <<>>]]
NoPending == [t \in TableSet |-> <<>>]

\* What a statement on the connection sees: committed rows, then the rows of
\* the open transaction.
Visible(t) == store.rows[t] \o pending[t]

MaxId(rows) == IF rows = <<>> THEN 0
               ELSE CHOOSE m \in {rows[i].id : i \in 1..Len(rows)} :
                        \A i \in 1..Len(rows) : rows[i].id <= m

\* INSERT OR IGNORE of one seed tuple: the id is not given, so AUTOINCREMENT
\* assigns one; the row is skipped only on a conflict in a constrained column.
InsertOrIgnore(t, rows, key) ==
    LET row == [id |-> MaxId(rows) + 1, key |-> key]
    IN  IF \E i \in 1..Len(rows) : \E c \in UniqueColumns(t) : rows[i][c] = row[c]
        THEN rows
        ELSE Append(rows, row)

RECURSIVE ExecuteMany(_, _, _)
ExecuteMany(t, rows, keys) ==
    IF keys = <<>> THEN rows
    ELSE ExecuteMany(t, InsertOrIgnore(t, rows, Head(keys)), Tail(keys))

\* The metadata dict that json.dump writes.
Metadata == [exists |-> TRUE,
             row_count |-> [t \in TableSet |-> MetadataRowCount(t)],
             last_updated |-> clock]

Raise == /\ pc' = 0
         /\ outcome' = "raised"

Advance == /\ pc' = pc + 1
           /\ UNCHANGED outcome

\* A call of create_sample_database() begins.
StartRun ==
    /\ pc = 0
    /\ runs < MaxRuns
    /\ runs' = runs + 1
    /\ pc' = 1
    /\ outcome' = "none"
    /\ \E f \in Faults :
          /\ f = "readonly" => store.file
          /\ fault' = f
    /\ conn' = "none"
    /\ pending' = NoPending
    /\ clock' = clock + 1
    /\ trace' = <<>>
    /\ store_before' = store
    /\ doc_before' = doc
    /\ UNCHANGED <<dirs, store, doc, preexisting>>
    /\ UNCHANGED cfgVars

MkdirFault(d) == IF d = "test_data" THEN "mkdir_test_data" ELSE "mkdir_resources"

\* Path(...).mkdir(exist_ok=True): an existing directory is accepted as it is.
Mkdir ==
    /\ At("mkdir")
    /\ LET d == Program[pc].arg
       IN  IF d \notin dirs /\ fault = MkdirFault(d)
           THEN Raise /\ UNCHANGED dirs
           ELSE Advance /\ dirs' = dirs \cup {d}
    /\ UNCHANGED <<fault, store, conn, pending, doc, clock, runs, trace,
                   store_before, doc_before, preexisting>>
    /\ UNCHANGED cfgVars

\* sqlite3.connect(db_path): creates the file when it does not exist.
Connect ==
    /\ At("connect")
    /\ IF fault = "connect"
       THEN Raise /\ UNCHANGED <<store, conn>>
       ELSE /\ Advance
            /\ conn' = "open"
            /\ store' = IF store.file THEN store ELSE EmptyDb
    /\ UNCHANGED <<fault, dirs, pending, doc, clock, runs, trace,
                   store_before, doc_before, preexisting>>
    /\ UNCHANGED cfgVars

\* cursor.execute("CREATE TABLE IF NOT EXISTS ..."): a DDL statement, outside
\* any transaction, so it takes effect at once.
CreateTable ==
    /\ At("create")
    /\ LET t == Program[pc].arg
       IN  IF t \in store.tables
           THEN Advance /\ UNCHANGED store
           ELSE IF fault = "readonly"
                THEN Raise /\ UNCHANGED store
                ELSE Advance /\ store' = [store EXCEPT !.tables = @ \cup {t}]
    /\ trace' = Append(trace, Program[pc])
    /\ UNCHANGED <<fault, dirs, conn, pending, doc, clock, runs,
                   store_before, doc_before, preexisting>>
    /\ UNCHANGED cfgVars

\* cursor.executemany("INSERT OR IGNORE INTO ...", <table>_data): opens the
\* transaction implicitly; the rows stay pending until commit.
InsertSeed ==
    /\ At("insert")
    /\ LET t == Program[pc].arg
           after == ExecuteMany(t, Visible(t), SeedKeys(t))
       IN  IF fault = "readonly"
           THEN Raise /\ UNCHANGED pending
           ELSE /\ Advance
                /\ pending' = [pending EXCEPT
                       ![t] = SubSeq(after, Len(store.rows[t]) + 1, Len(after))]
    /\ trace' = Append(trace, Program[pc])
    /\ UNCHANGED <<fault, dirs, store, conn, doc, clock, runs,
                   store_before, doc_before, preexisting>>
    /\ UNCHANGED cfgVars

\* conn.commit()
Commit ==
    /\ At("commit")
    /\ Advance
    /\ store' = [store EXCEPT !.rows = [t \in TableSet |-> Visible(t)]]
    /\ pending' = NoPending
    /\ trace' = Append(trace, Program[pc])
    /\ UNCHANGED <<fault, dirs, conn, doc, clock, runs,
                   store_before, doc_before, preexisting>>
    /\ UNCHANGED cfgVars

\* conn.close(): what is still pending is rolled back.
Close ==
    /\ At("close")
    /\ Advance
    /\ conn' = "closed"
    /\ pending' = NoPending
    /\ trace' = Append(trace, Program[pc])
    /\ UNCHANGED <<fault, dirs, store, doc, clock, runs,
                   store_before, doc_before, preexisting>>
    /\ UNCHANGED cfgVars

\* with open(metadata_path, 'w') as f: json.dump(metadata, f, indent=2)
WriteMetadata ==
    /\ At("write_metadata")
    /\ IF fault = "open_metadata"
       THEN Raise /\ UNCHANGED <<doc, trace>>
       ELSE /\ Advance
            /\ doc' = Metadata
            /\ trace' = Append(trace, Program[pc])
    /\ UNCHANGED <<fault, dirs, store, conn, pending, clock, runs,
                   store_before, doc_before, preexisting>>
    /\ UNCHANGED cfgVars

\* return db_path, metadata_path
Return ==
    /\ At("return")
    /\ pc' = 0
    /\ outcome' = "returned"
    /\ UNCHANGED <<fault, dirs, store, conn, pending, doc, clock, runs, trace,
                   store_before, doc_before, preexisting>>
    /\ UNCHANGED cfgVars

\* An exception leaves the function: the connection object is dropped without
\* commit, which rolls the open transaction back.  (Folded into Raise: pending
\* rows are never read after a raise, StartRun resets them.)

GenNext == StartRun \/ Mkdir \/ Connect \/ CreateTable \/ InsertSeed
           \/ Commit \/ Close \/ WriteMetadata \/ Return

\* A store left by somebody else: the six tables, one of them holding a row.
OtherRows == [file |-> TRUE, tables |-> TableSet,
              rows |-> [EmptyDb.rows EXCEPT
                 !["user_behavior_metadata"] = <<[id |-> 1, key |-> 1]>>,
                 !["order_logistics_metadata"] = <<[id |-> 7, key |-> 99]>>]]

\* A metadata document left by somebody else.
StaleDoc == [exists |-> TRUE, row_count |-> [t \in TableSet |-> 0],
             last_updated |-> 0]

GenInit ==
    /\ pc = 0
    /\ outcome = "none"
    /\ fault = "none"
    /\ \E w \in {<<{}, NoFile, NoDoc>>,
                 <<{"test_data"}, NoFile, NoDoc>>,
                 <<{"test_data"}, EmptyDb, NoDoc>>,
                 <<{"test_data"}, OtherRows, NoDoc>>,
                 <<{"test_data", "resources"}, NoFile, StaleDoc>>,
                 <<{"test_data", "resources"}, OtherRows, StaleDoc>>} :
          /\ dirs = w[1]
          /\ store = w[2]
          /\ doc = w[3]
    /\ conn = "none"
    /\ pending = NoPending
    /\ clock = 0
    /\ runs = 0
    /\ trace = <<>>
    /\ store_before = store
    /\ doc_before = doc
    /\ preexisting = store

\* =================================================================
\* Configuration resolver
\* =================================================================

LowerCase == <<"a", "b", "c", "d", "e", "f", "g", "h", "i", "j", "k", "l", "m",
               "n", "o", "p", "q", "r", "s", "t", "u", "v", "w", "x", "y", "z">>
UpperCase == <<"A", "B", "C", "D", "E", "F", "G", "H", "I", "J", "K", "L", "M",
               "N", "O", "P", "Q", "R", "S", "T", "U", "V", "W", "X", "Y", "Z">>
Digits == <<"0", "1", "2", "3", "4", "5", "6", "7", "8", "9">>

IsLower(c) == \E i \in 1..Len(LowerCase) : LowerCase[i] = c
IsUpper(c) == \E i \in 1..Len(UpperCase) : UpperCase[i] = c
IsAlpha(c) == IsLower(c) \/ IsUpper(c)
IsDigit(c) == \E i \in 1..Len(Digits) : Digits[i] = c

\* str.upper() and str.lower(), character by character.
UpperChar(c) == IF IsLower(c)
                THEN UpperCase[CHOOSE i \in 1..Len(LowerCase) : LowerCase[i] = c]
                ELSE c
LowerChar(c) == IF IsUpper(c)
                THEN LowerCase[CHOOSE i \in 1..Len(UpperCase) : UpperCase[i] = c]
                ELSE c
Upper(s) == [i \in 1..Len(s) |-> UpperChar(s[i])]
Lower(s) == [i \in 1..Len(s) |-> LowerChar(s[i])]

\* str.find(c): the first index of c in s, 0 when there is none.
Find(s, c) == IF \E i \in 1..Len(s) : s[i] = c
              THEN CHOOSE i \in 1..Len(s) : s[i] = c /\ \A j \in 1..(i - 1) : s[j] # c
              ELSE 0
\* str.rfind(c)
RFind(s, c) == IF \E i \in 1..Len(s) : s[i] = c
               THEN CHOOSE i \in 1..Len(s) :
                        s[i] = c /\ \A j \in (i + 1)..Len(s) : s[j] # c
               ELSE 0
Contains(s, c) == Find(s, c) # 0
From(s, i) == SubSeq(s, i, Len(s))

\* ---- urllib.parse.urlparse, as parse_mcp_server_url uses it

SchemeChar(c) == IsAlpha(c) \/ IsDigit(c) \/ c \in {"+", "-", "."}

\* urlsplit: the text before the first ":" is split off as the scheme when it
\* starts with a letter and holds scheme characters only (i: the index of
\* that ":", 0 when there is none). The result is the index the rest starts at.
SchemeEndAt(url, i) ==
    IF i > 1 /\ IsAlpha(url[1]) /\ \A j \in 1..(i - 1) : SchemeChar(url[j])
    THEN i + 1
    ELSE 1

\* _splitnetloc: the netloc ends before the first "/", "?" or "#".
NetlocUpTo(tail, delims) ==
    IF delims = {} THEN tail
    ELSE SubSeq(tail, 1, (CHOOSE k \in delims : \A m \in delims : k <= m) - 1)

NetlocOfTail(tail) ==
    NetlocUpTo(tail, {k \in 1..Len(tail) : tail[k] \in {"/", "?", "#"}})

\* A netloc is there when the rest starts with "//".
NetlocOfRest(rest) ==
    IF Len(rest) >= 2 /\ rest[1] = "/" /\ rest[2] = "/"
    THEN NetlocOfTail(From(rest, 3))
    ELSE <<>>

Netloc(url) == NetlocOfRest(From(url, SchemeEndAt(url, Find(url, ":"))))

\* A netloc with one square bracket and not the other: ValueError("Invalid
\* IPv6 URL").
ParseResult(netloc) ==
    [raises |-> Contains(netloc, "[") # Contains(netloc, "]"), netloc |-> netloc]

\* urlparse(url); of its result the code reads hostname and port only, both
\* taken from the netloc.
UrlParse(url) == ParseResult(Netloc(url))

\* str.partition(":") of s, given the index of the first ":" (0: none).
SplitAt(s, colon) ==
    [hostname |-> IF colon = 0 THEN s ELSE SubSeq(s, 1, colon - 1),
     port |-> IF colon = 0 THEN <<>> ELSE From(s, colon + 1)]

PortAfter(s) == SplitAt(s, Find(s, ":")).port

\* The text after "[", given the index of the first "]" in it (0: none).
BracketedAt(bracketed, cl) ==
    IF cl = 0 THEN [hostname |-> bracketed, port |-> <<>>]
    ELSE [hostname |-> SubSeq(bracketed, 1, cl - 1),
          port |-> PortAfter(From(bracketed, cl + 1))]

Bracketed(bracketed) == BracketedAt(bracketed, Find(bracketed, "]"))

HostInfoOf(hostinfo) ==
    IF Contains(hostinfo, "[")
    THEN Bracketed(From(hostinfo, Find(hostinfo, "[") + 1))
    ELSE SplitAt(hostinfo, Find(hostinfo, ":"))

\* ParseResult._hostinfo: the text after the last "@", split at the first ":"
\* (after the closing bracket for a bracketed host). An empty port is None.
HostInfo(netloc) == HostInfoOf(From(netloc, RFind(netloc, "@") + 1))

\* ParseResult.hostname: lower-cased; the empty sequence stands for None.
ParsedHostname(netloc) == Lower(HostInfo(netloc).hostname)

DigitValue(c) == (CHOOSE i \in 1..Len(Digits) : Digits[i] = c) - 1

\* int(port)
RECURSIVE ToInt(_)
ToInt(s) == IF s = <<>> THEN 0
            ELSE 10 * ToInt(SubSeq(s, 1, Len(s) - 1)) + DigitValue(s[Len(s)])

NoPort == [raises |-> FALSE, none |-> TRUE, val |-> 0]
PortError == [raises |-> TRUE, none |-> TRUE, val |-> 0]

PortInRange(n) ==
    IF n > 65535 THEN PortError ELSE [raises |-> FALSE, none |-> FALSE, val |-> n]

PortOf(p) ==
    IF p = <<>> THEN NoPort
    ELSE IF \E i \in 1..Len(p) : ~IsDigit(p[i]) THEN PortError
    ELSE PortInRange(ToInt(p))

\* ParseResult.port: None without a port; ValueError when the port is not all
\* digits or lies outside 0..65535; the integer otherwise.
ParsedPort(netloc) == PortOf(HostInfo(netloc).port)

\* dict.get(k): the empty sequence stands for None (both are falsy).
Get(d, k) == IF k \in DOMAIN d THEN d[k] ELSE <<>>
\* d[k] = v
Put(d, k, v) == (k :> v) @@ d

\* a or b or c
FirstTruthy(a, b, c) == IF a # <<>> THEN a ELSE IF b # <<>> THEN b ELSE c

\* values.get('MCP_SERVER_URL') or values.get('mcp_server_url')
\*     or os.getenv('MCP_SERVER_URL')
McpUrl(vals, getenv) ==
    FirstTruthy(Get(vals, "MCP_SERVER_URL"), Get(vals, "mcp_server_url"), getenv)

\* if parsed.hostname: values['host'] = parsed.hostname
OverrideHost(vals, hostname) ==
    IF hostname # <<>> THEN Put(vals, "host", hostname) ELSE vals

OverridePort_if_not_none(vals, port) ==
    IF port.raises THEN [values |-> vals, warned |-> TRUE]
    ELSE IF ~port.none
    THEN [values |-> Put(vals, "port", port.val), warned |-> FALSE]
    ELSE [values |-> vals, warned |-> FALSE]

\* if parsed.port: values['port'] = parsed.port -- reading parsed.port may
\* raise, which the except clause turns into a warning; the host assignment
\* before it stays.
OverridePort(vals, port) ==
    IF port.raises THEN [values |-> vals, warned |-> TRUE]
    ELSE IF ~port.none /\ port.val # 0
    THEN [values |-> Put(vals, "port", port.val), warned |-> FALSE]
    ELSE [values |-> vals, warned |-> FALSE]

\* The try block, given what urlparse returned or that it raised.
Override(vals, parsed) ==
    IF parsed.raises THEN [values |-> vals, warned |-> TRUE]
    ELSE OverridePort(OverrideHost(vals, ParsedHostname(parsed.netloc)),
                      ParsedPort(parsed.netloc))

OverrideWith(vals, url) ==
    IF url = <<>> THEN [values |-> vals, warned |-> FALSE]
    ELSE Override(vals, UrlParse(url))

\* ServerConfig.parse_mcp_server_url (model_validator, mode='before'): the
\* dict it returns and whether logging.warning was called.
parse_mcp_server_url(vals, getenv) == OverrideWith(vals, McpUrl(vals, getenv))

\* ---- the fields of ServerConfig and their validators

\* The Field(default=...) of every field.
Defaults ==
    [database_path |-> <<"t", "e", "s", "t", "_", "d", "a", "t", "a", "/",
                        "s", "a", "m", "p", "l", "e", ".", "d", "b">>,
     metadata_path |-> <<"r", "e", "s", "o", "u", "r", "c", "e", "s", "/",
                        "m", "e", "t", "a", "d", "a", "t", "a", ".", "j",
                        "s", "o", "n">>,
     server_name |-> "moba-mcp",
     server_version |-> "0.1.0",
     host |-> <<"l", "o", "c", "a", "l", "h", "o", "s", "t">>,
     port |-> 8000,
     transport |-> "stdio",
     stateless_http |-> FALSE,
     json_response |-> FALSE,
     log_level |-> <<"I", "N", "F", "O">>,
     log_format |-> "%(asctime)s - %(name)s - %(levelname)s - %(message)s",
     max_query_length |-> 10000,
     max_result_rows |-> 1000]

Fields == DOMAIN Defaults

\* model_config: env_file, case_sensitive and extra are set; frozen and
\* validate_assignment are not, so they keep pydantic's defaults.
model_config == [env_file |-> ".env", case_sensitive |-> FALSE, extra |-> "ignore",
                 frozen |-> FALSE, validate_assignment |-> FALSE]

Ok(v) == [ok |-> TRUE, val |-> v]
ValueError(v) == [ok |-> FALSE, val |-> v]

valid_levels == {<<"D", "E", "B", "U", "G">>,
                 <<"I", "N", "F", "O">>,
                 <<"W", "A", "R", "N", "I", "N", "G">>,
                 <<"E", "R", "R", "O", "R">>,
                 <<"C", "R", "I", "T", "I", "C", "A", "L">>}

validate_log_level_keep_case(v) ==
    IF Upper(v) \notin valid_levels THEN ValueError(v) ELSE Ok(v)

validate_log_level(v) ==
    IF Upper(v) \notin valid_levels THEN ValueError(v) ELSE Ok(Upper(v))

validate_database_path(v) == IF v = <<>> THEN ValueError(v) ELSE Ok(v)

validate_metadata_path_any(v) == Ok(v)

validate_metadata_path(v) == IF v = <<>> THEN ValueError(v) ELSE Ok(v)

validate_max_query_length(v) == IF v <= 0 THEN ValueError(v) ELSE Ok(v)

validate_max_result_rows(v) == IF v <= 0 THEN ValueError(v) ELSE Ok(v)

valid_transports == {"stdio", "sse", "streamable-http"}

validate_transport(v) == IF v \notin valid_transports THEN ValueError(v) ELSE Ok(v)

validate_port_from_zero(v) == IF ~(0 <= v /\ v <= 65535) THEN ValueError(v) ELSE Ok(v)

validate_port(v) == IF ~(1 <= v /\ v <= 65535) THEN ValueError(v) ELSE Ok(v)

\* The field_validator registered for field f, applied to a given value.
FieldValidator(f, v) ==
    CASE f = "log_level"        -> validate_log_level(v)
      [] f = "database_path"    -> validate_database_path(v)
      [] f = "metadata_path"    -> validate_metadata_path(v)
      [] f = "max_query_length" -> validate_max_query_length(v)
      [] f = "max_result_rows"  -> validate_max_result_rows(v)
      [] f = "transport"        -> validate_transport(v)
      [] f = "port"             -> validate_port(v)
      [] OTHER                  -> Ok(v)

\* A field that is given is run through its validator; a field that is not
\* given takes its default, which is not validated.
Checked(vals) ==
    [f \in Fields |-> IF f \in DOMAIN vals THEN FieldValidator(f, vals[f])
                      ELSE Ok(Defaults[f])]

NoRecord == [f \in {} |-> 0]

\* Every failing field is reported and no instance is created.
InstantiateOrRaise(checked, bad) ==
    /\ errors' = bad
    /\ cfg' = IF bad = {} THEN [f \in Fields |-> checked[f].val] ELSE NoRecord
    /\ cpc' = IF bad = {} THEN "constructed" ELSE "failed"

Instantiate(checked) == InstantiateOrRaise(checked, {f \in Fields : ~checked[f].ok})

Validate(r) ==
    /\ values' = r.values
    /\ warnings' = IF r.warned THEN warnings + 1 ELSE warnings
    /\ Instantiate(Checked(r.values))

\* ServerConfig(): the 'before' model validator, then the field validators.
Construct ==
    /\ cpc = "input"
    /\ Validate(parse_mcp_server_url(source, getenv_url))
    /\ UNCHANGED <<source, getenv_url, assigns, cwd, resolved>>
    /\ UNCHANGED genVars

\* ---- pathlib.Path on a POSIX system, as the path helpers use it

RECURSIVE SplitSlash(_)
SplitSlash(s) ==
    IF s = <<>> THEN <<>>
    ELSE LET i == Find(s, "/")
         IN  IF i = 0 THEN <<s>>
             ELSE <<SubSeq(s, 1, i - 1)>> \o SplitSlash(From(s, i + 1))

LeadingSlashes(s) ==
    IF \A i \in 1..Len(s) : s[i] = "/" THEN Len(s)
    ELSE (CHOOSE i \in 1..Len(s) : s[i] # "/" /\ \A j \in 1..(i - 1) : s[j] = "/") - 1

KeptPart(x) == x # <<>> /\ x # <<".">>

\* Path(s): the root is "/" ("//" for exactly two leading slashes); empty and
\* "." components are dropped.
Path(s) ==
    [root |-> IF LeadingSlashes(s) = 0 THEN ""
              ELSE IF LeadingSlashes(s) = 2 THEN "//" ELSE "/",
     parts |-> SelectSeq(SplitSlash(s), KeptPart)]

is_absolute(p) == p.root # ""

\* base / p
Joined(base, p) ==
    IF is_absolute(p) THEN p
    ELSE [root |-> base.root, parts |-> base.parts \o p.parts]

None == [none |-> TRUE, path |-> Path(<<>>)]
Some(p) == [none |-> FALSE, path |-> p]

get_absolute_database_path_of_metadata(self, base_path) ==
    LET db_path == Path(self.metadata_path)
    IN  IF is_absolute(db_path) THEN db_path
        ELSE Joined(IF base_path.none THEN cwd ELSE base_path.path, db_path)

\* ServerConfig.get_absolute_database_path
get_absolute_database_path(self, base_path) ==
    LET db_path == Path(self.database_path)
    IN  IF is_absolute(db_path) THEN db_path
        ELSE Joined(IF base_path.none THEN cwd ELSE base_path.path, db_path)

\* ServerConfig.get_absolute_metadata_path
get_absolute_metadata_path(self, base_path) ==
    LET metadata_path == Path(self.metadata_path)
    IN  IF is_absolute(metadata_path) THEN metadata_path
        ELSE Joined(IF base_path.none THEN cwd ELSE base_path.path, metadata_path)

NotCalled == [called |-> FALSE, configured |-> <<>>, base |-> None,
              result |-> Path(<<>>)]

\* The base_path arguments the consumers pass.
Bases == {None, Some(Path(<<"/", "s", "r", "v", "/", "a", "p", "p">>)),
    Some(Path(<<"r", "e", "l">>))}

\* A consumer calls config.get_absolute_database_path(base_path).
GetAbsoluteDatabasePath ==
    /\ cpc = "constructed"
    /\ \E b \in Bases :
          resolved' = [resolved EXCEPT !.database =
                          [called |-> TRUE, configured |-> cfg.database_path,
                           base |-> b,
                           result |-> get_absolute_database_path(cfg, b)]]
    /\ UNCHANGED <<cpc, source, getenv_url, values, cfg, errors, warnings,
                   assigns, cwd>>
    /\ UNCHANGED genVars

\* A consumer calls config.get_absolute_metadata_path(base_path).
GetAbsoluteMetadataPath ==
    /\ cpc = "constructed"
    /\ \E b \in Bases :
          resolved' = [resolved EXCEPT !.metadata =
                          [called |-> TRUE, configured |-> cfg.metadata_path,
                           base |-> b,
                           result |-> get_absolute_metadata_path(cfg, b)]]
    /\ UNCHANGED <<cpc, source, getenv_url, values, cfg, errors, warnings,
                   assigns, cwd>>
    /\ UNCHANGED genVars

\* The assignments consumers try on the record.
Assignments == <<[field |-> "port", val |-> 0],
                 [field |-> "log_level", val |-> <<"d", "e", "b", "u", "g">>]>>

\* A consumer assigns config.<field> = val. BaseModel.__setattr__ refuses when
\* the model is frozen, validates when validate_assignment is set, and stores
\* the value as it is otherwise.
SetAttr ==
    /\ cpc = "constructed"
    /\ assigns < MaxAssign
    /\ \E i \in 1..Len(Assignments) :
          LET a == Assignments[i]
              v == FieldValidator(a.field, a.val)
          IN  cfg' = IF model_config.frozen THEN cfg
                     ELSE IF ~model_config.validate_assignment
                     THEN [cfg EXCEPT ![a.field] = a.val]
                     ELSE IF v.ok THEN [cfg EXCEPT ![a.field] = v.val]
                     ELSE cfg
    /\ assigns' = assigns + 1
    /\ UNCHANGED <<cpc, source, getenv_url, values, errors, warnings, cwd,
                   resolved>>
    /\ UNCHANGED genVars

CfgNext == Construct \/ GetAbsoluteDatabasePath \/ GetAbsoluteMetadataPath
           \/ SetAttr

\* ---- inputs

\* A field that no source gives (v: any value of the field's type).
Absent(v) == [set |-> FALSE, val |-> v]
Given(S) == {[set |-> TRUE, val |-> v] : v \in S}

\* The dict of the given fields only.
Collected(opt) == [k \in {f \in DOMAIN opt : opt[f].set} |-> opt[k].val]

\* http://Example.org:9999/path
UrlFull == <<"h", "t", "t", "p", ":", "/", "/", "E", "x", "a", "m", "p", "l",
    "e", ".", "o", "r", "g", ":", "9", "9", "9", "9", "/", "p", "a", "t",
    "h">>
\* http://h
UrlNoPort == <<"h", "t", "t", "p", ":", "/", "/", "h">>
\* http://h:0
UrlPortZero == <<"h", "t", "t", "p", ":", "/", "/", "h", ":", "0">>
\* http://h:65535/
UrlPortMax == <<"h", "t", "t", "p", ":", "/", "/", "h", ":", "6", "5", "5",
    "3", "5", "/">>
\* http://h:65536
UrlPortTooBig == <<"h", "t", "t", "p", ":", "/", "/", "h", ":", "6", "5", "5",
    "3", "6">>
\* http://h:9x
UrlPortNotDigits == <<"h", "t", "t", "p", ":", "/", "/", "h", ":", "9", "x">>
\* http://[::1
UrlBadBracket == <<"h", "t", "t", "p", ":", "/", "/", "[", ":", ":", "1">>
\* h:9
UrlNoScheme == <<"h", ":", "9">>
\* http://:8080
UrlNoHost == <<"h", "t", "t", "p", ":", "/", "/", ":", "8", "0", "8", "0">>
\* http://u:p@h:1?q
UrlUserInfo == <<"h", "t", "t", "p", ":", "/", "/", "u", ":", "p", "@", "h",
    ":", "1", "?", "q">>

Urls == {UrlFull, UrlNoPort, UrlPortZero, UrlPortMax, UrlPortTooBig,
         UrlPortNotDigits, UrlBadBracket, UrlNoScheme, UrlNoHost, UrlUserInfo}

\* Where MCP_SERVER_URL is found: the dict under either key, or os.getenv.
UrlInputs ==
    {[upper |-> <<>>, lower |-> <<>>, getenv |-> u] : u \in Urls \cup {<<>>}}
    \cup {[upper |-> UrlNoPort, lower |-> UrlFull, getenv |-> UrlPortMax],
          [upper |-> <<>>, lower |-> UrlFull, getenv |-> UrlPortMax]}

\* debug, Warning, trace
LogLevelInputs == {<<"d", "e", "b", "u", "g">>, <<"W", "a", "r", "n", "i", "n"
    , "g">>,
                   <<"t", "r", "a", "c", "e">>}

\* s.db, /abs/s.db, a//b/./c, //n/x, ../up, d/
PathInputs == {<<"s", ".", "d", "b">>, <<"/", "a", "b", "s", "/", "s", ".",
    "d", "b">>,
               <<"a", "/", "/", "b", "/", ".", "/", "c">>,
               <<"/", "/", "n", "/", "x">>, <<".", ".", "/", "u", "p">>,
               <<"d", "/">>}

WithUrl(opt, u) ==
    (IF u.upper # <<>> THEN "MCP_SERVER_URL" :> u.upper ELSE <<>>)
    @@ (IF u.lower # <<>> THEN "mcp_server_url" :> u.lower ELSE <<>>)
    @@ Collected(opt)

\* Inputs that exercise the validators and the override URL.
ValidationInputs ==
    /\ \E ll \in {Absent(<<>>)} \cup Given(LogLevelInputs),
          dp \in {Absent(<<>>)} \cup Given({<<>>, <<"s", ".", "d", "b">>}),
          mp \in {Absent(<<>>)} \cup Given({<<>>}),
          ql \in Given({0, 1}),
          rr \in Given({0, 1}),
          tr \in {Absent("")} \cup Given({"sse", "http"}),
          po \in {Absent(0)} \cup Given({-1, 0, 1, 65535, 65536}),
          ho \in {Absent(<<>>)} \cup Given({<<"0", ".", "0", ".", "0", ".",
              "0">>}),
          u \in UrlInputs :
          /\ source = WithUrl([log_level |-> ll, database_path |-> dp,
                               metadata_path |-> mp, max_query_length |-> ql,
                               max_result_rows |-> rr, transport |-> tr,
                               port |-> po, host |-> ho], u)
          /\ getenv_url = u.getenv
    /\ cwd = Path(<<"/", "w">>)

\* Inputs that exercise the path helpers: every other field at its default.
PathHelperInputs ==
    /\ \E dp \in Given(PathInputs), mp \in Given(PathInputs) :
          source = Collected([database_path |-> dp, metadata_path |-> mp])
    /\ getenv_url = <<>>
    /\ cwd \in {Path(<<"/", "w">>), Path(<<"/">>)}

CfgInit ==
    /\ cpc = "input"
    /\ ValidationInputs \/ PathHelperInputs
    /\ values = source
    /\ cfg = NoRecord
    /\ errors = {}
    /\ warnings = 0
    /\ assigns = 0
    /\ resolved = [database |-> NotCalled, metadata |-> NotCalled]

\* The resolver is not in use.
CfgIdle ==
    /\ cpc = "idle"
    /\ source = <<>>
    /\ getenv_url = <<>>
    /\ values = <<>>
    /\ cfg = NoRecord
    /\ errors = {}
    /\ warnings = 0
    /\ assigns = 0
    /\ cwd = Path(<<"/">>)
    /\ resolved = [database |-> NotCalled, metadata |-> NotCalled]

\* The generator is not in use.
GenIdle ==
    /\ pc = 0
    /\ outcome = "none"
    /\ fault = "none"
    /\ dirs = {}
    /\ store = NoFile
    /\ conn = "none"
    /\ pending = NoPending
    /\ doc = NoDoc
    /\ clock = 0
    /\ runs = 0
    /\ trace = <<>>
    /\ store_before = NoFile
    /\ doc_before = NoDoc
    /\ preexisting = NoFile

\* ServerConfig: construction, then use by its consumers.
Init == CfgInit /\ GenIdle

Spec == Init /\ [][CfgNext]_vars

\* create_sample_database, called up to MaxRuns times.
GenSpecInit == GenInit /\ CfgIdle

GenSpec == GenSpecInit /\ [][GenNext]_vars

\* =================================================================
\* Properties
\* =================================================================

Returned == pc = 0 /\ outcome = "returned"
Raised == pc = 0 /\ outcome = "raised"

RowCount(t) == Len(store.rows[t])

\* The seed cardinality of each table, as the specification gives it.
SeedCardinality ==
    [t \in TableSet |->
        CASE t = "user_behavior_metadata"       -> 5
          [] t = "product_performance_metadata" -> 10
          [] t = "order_logistics_metadata"     -> 4
          [] t = "user_preferences_metadata"    -> 5
          [] t = "product_supplier_metadata"    -> 10
          [] t = "order_financial_metadata"     -> 4]

\* C1: after any number of completed runs against a target that was empty
\* before the first one, every table holds exactly its seed cardinality
\* (5, 10, 4, 5, 10, 4): a second run inserts nothing.
C1_RerunKeepsSeedCardinality ==
    (Returned /\ \A t \in TableSet : Get(preexisting.rows, t) = <<>>)
        => \A t \in TableSet : RowCount(t) = SeedCardinality[t]

\* C2: right after a completed run, whatever the store held before it, the
\* row_count of every table in the metadata document is the number of rows
\* of that table in the store.
C2_RowCountsMatchStore ==
    Returned => \A t \in TableSet : doc.row_count[t] = RowCount(t)

DirectoryOrStoreFaults == {"mkdir_test_data", "mkdir_resources", "connect",
                           "readonly"}

MetadataWritten == \E i \in 1..Len(trace) : trace[i].op = "write_metadata"

\* C3: when a target directory cannot be created or the store cannot be opened
\* for writing, the run raises before the metadata document is written, and
\* neither the store nor the document is changed by that run.
C3_DirectoryOrStoreFailureIsAtomic ==
    (Raised /\ fault \in DirectoryOrStoreFaults)
        => /\ ~MetadataWritten
           /\ doc = doc_before
           /\ store = store_before

\* A second run that fails on the store, after a first run that produced both
\* the store and the document.
C3_Witness ==
    /\ Raised
    /\ fault \in {"connect", "readonly"}
    /\ runs = 2
    /\ doc.exists /\ doc.last_updated = 1
    /\ RowCount("user_behavior_metadata") > 0

\* The value every field resolves to: what parse_mcp_server_url hands on, or
\* the default.
ResolvedValue(f) == IF f \in DOMAIN values THEN values[f] ELSE Defaults[f]

Finished == cpc \in {"constructed", "failed"}

\* The constraints of the settings record, on the resolved values.
ResolvedValuesValid ==
    /\ Upper(ResolvedValue("log_level")) \in valid_levels
    /\ ResolvedValue("database_path") # <<>>
    /\ ResolvedValue("metadata_path") # <<>>
    /\ ResolvedValue("max_query_length") > 0
    /\ ResolvedValue("max_result_rows") > 0
    /\ ResolvedValue("transport") \in {"stdio", "sse", "streamable-http"}
    /\ ResolvedValue("port") \in 1..65535

\* The constraints of the settings record, on the record.
RecordValid ==
    /\ DOMAIN cfg = Fields
    /\ cfg.log_level \in valid_levels
    /\ cfg.database_path # <<>>
    /\ cfg.metadata_path # <<>>
    /\ cfg.max_query_length > 0
    /\ cfg.max_result_rows > 0
    /\ cfg.transport \in {"stdio", "sse", "streamable-http"}
    /\ cfg.port \in 1..65535

\* C4: construction is all-or-nothing: it returns a record iff every
\* constraint holds on the resolved values, the record it returns satisfies
\* every constraint, and a failed construction leaves no record.
C4_ConstructionAllOrNothing ==
    Finished =>
        /\ (cpc = "constructed") <=> ResolvedValuesValid
        /\ (cpc = "constructed") <=> (errors = {})
        /\ (cpc = "constructed" /\ assigns = 0) => RecordValid
        /\ (cpc = "failed") => cfg = NoRecord

\* A construction that fails on two fields at once and leaves no record.
C4_Witness ==
    /\ cpc = "failed"
    /\ {"metadata_path", "transport"} \subseteq errors
    /\ cfg = NoRecord

\* The override URL of this construction (empty: none).
TheUrl == McpUrl(source, getenv_url)

UrlUnparseable(url) ==
    url # <<>> /\ (UrlParse(url).raises \/ ParsedPort(Netloc(url)).raises)

UrlParseable(url) == url # <<>> /\ ~UrlUnparseable(url)

\* Key k is given in both dicts with the same value, or in neither.
SameEntry(a, b, k) ==
    /\ (k \in DOMAIN a) <=> (k \in DOMAIN b)
    /\ (k \in DOMAIN a /\ k \in DOMAIN b) => a[k] = b[k]

\* C5: with a parseable override URL the resolved host is the URL's hostname
\* and the resolved port is the URL's port; without a port in the URL the
\* port stays as resolved before; every other setting is untouched.
C5_OverrideUrlSetsHostAndPort ==
    (Finished /\ UrlParseable(TheUrl)) =>
        /\ ParsedHostname(Netloc(TheUrl)) # <<>>
              => ResolvedValue("host") = ParsedHostname(Netloc(TheUrl))
        /\ ~ParsedPort(Netloc(TheUrl)).none
              => ResolvedValue("port") = ParsedPort(Netloc(TheUrl)).val
        /\ ParsedPort(Netloc(TheUrl)).none => SameEntry(values, source, "port")
        /\ \A k \in (DOMAIN source \cup DOMAIN values) \ {"host", "port"} :
              SameEntry(values, source, k)

\* C6: an override URL that cannot be parsed raises nothing, records a
\* warning, and leaves host and port as they were resolved before it.
C6_MalformedUrlKeepsHostAndPort ==
    (Finished /\ UrlUnparseable(TheUrl)) =>
        /\ warnings = 1
        /\ SameEntry(values, source, "host")
        /\ SameEntry(values, source, "port")

\* C7: once constructed, the record keeps the value construction gave to
\* every field, whatever its consumers do with it.
C7_RecordKeepsConstructedValues ==
    cpc = "constructed" => cfg = [f \in Fields |-> Checked(values)[f].val]

\* C8: construction accepts the port iff it lies in 1..65535; 0, -1 and 65536
\* are refused, 1 and 65535 are accepted.
C8_PortAcceptedIffInRange ==
    Finished =>
        /\ ("port" \notin errors) <=> (ResolvedValue("port") \in 1..65535)
        /\ ResolvedValue("port") \in {0, -1, 65536} => "port" \in errors
        /\ ResolvedValue("port") \in {1, 65535} => "port" \notin errors

\* Port 65535, taken from the override URL, is accepted where the port given
\* before it would have been refused.
C8_Witness ==
    /\ cpc = "constructed"
    /\ "port" \in DOMAIN source /\ source.port = 65536
    /\ cfg.port = 65535

CanonicalLevels == {<<"D", "E", "B", "U", "G">>, <<"I", "N", "F", "O">>,
                    <<"W", "A", "R", "N", "I", "N", "G">>,
                    <<"E", "R", "R", "O", "R">>,
                    <<"C", "R", "I", "T", "I", "C", "A", "L">>}

\* C9: a log level is accepted iff its upper-cased form is one of the five
\* names; the record stores that upper-case form, and validating a stored
\* value again returns it unchanged.
C9_LogLevelCanonical ==
    Finished =>
        /\ ("log_level" \notin errors)
              <=> (Upper(ResolvedValue("log_level")) \in CanonicalLevels)
        /\ (cpc = "constructed" /\ assigns = 0) =>
              /\ cfg.log_level \in CanonicalLevels
              /\ Len(cfg.log_level) = Len(ResolvedValue("log_level"))
              /\ \A i \in 1..Len(cfg.log_level) :
                    cfg.log_level[i] = UpperChar(ResolvedValue("log_level")[i])
              /\ validate_log_level(cfg.log_level) = Ok(cfg.log_level)

\* "debug" is stored as "DEBUG".
C9_Witness ==
    /\ cpc = "constructed" /\ assigns = 0
    /\ "log_level" \in DOMAIN source
    /\ source.log_level = <<"d", "e", "b", "u", "g">>
    /\ cfg.log_level = <<"D", "E", "B", "U", "G">>

\* What the rule of the path helpers gives for a configured path and a base.
StartsWithSlash(s) == Len(s) > 0 /\ s[1] = "/"
BaseUsed(call) == IF call.base.none THEN cwd ELSE call.base.path

FollowsRule(call) ==
    call.called =>
        IF StartsWithSlash(call.configured)
        THEN /\ call.result = Path(call.configured)
             /\ is_absolute(call.result)
        ELSE /\ call.result.root = BaseUsed(call).root
             /\ call.result.parts
                    = BaseUsed(call).parts \o Path(call.configured).parts

\* C10: both path helpers return an absolute configured path unchanged and a
\* relative one joined to the base directory (the working directory without a
\* base); for equal configured paths and bases they return equal results.
C10_PathResolution ==
    /\ FollowsRule(resolved.database)
    /\ FollowsRule(resolved.metadata)
    /\ (/\ resolved.database.called
        /\ resolved.metadata.called
        /\ resolved.database.configured = resolved.metadata.configured
        /\ resolved.database.base = resolved.metadata.base)
          => resolved.database.result = resolved.metadata.result

\* A relative store path resolved against /srv/app, and the same path
\* configured for the metadata document resolved against the same base.
C10_Witness ==
    /\ resolved.database.called
    /\ resolved.metadata.called
    /\ resolved.database.configured = <<"s", ".", "d", "b">>
    /\ resolved.metadata.configured = <<"s", ".", "d", "b">>
    /\ resolved.database.base = Some(Path(<<"/", "s", "r", "v", "/", "a", "p",
        "p">>))
    /\ resolved.metadata.base = Some(Path(<<"/", "s", "r", "v", "/", "a", "p",
        "p">>))
    /\ resolved.database.result
          = [root |-> "/", parts |-> <<<<"s", "r", "v">>, <<"a", "p", "p">>,
              <<"s", ".", "d", "b">>>>]

\* ---- the order of the generator's store operations

\* The positions of the current run's trace holding an operation of one kind.
Positions(op) == {i \in 1..Len(trace) : trace[i].op = op}

Precedes(a, b) == \A i \in Positions(a) : \A j \in Positions(b) : i < j

\* The tables a kind of statement has been executed for, in trace order.
Targets(op) == [i \in 1..Cardinality(Positions(op)) |->
                   trace[(CHOOSE k \in Positions(op) :
                            Cardinality({j \in Positions(op) : j <= k}) = i)].arg]

\* C11: in every run the store operations are strictly ordered: every table
\* creation precedes every seed insertion, every seed insertion precedes the
\* commit and there is at most one commit, so that no seed row reaches the
\* store before it; the close follows the commit; the metadata document is
\* written at most once and only after the commit and the close, never before
\* the commit.  A run that returns has executed the six creations, the six
\* insertions, one commit, one close and one metadata write, in this order.
C11_StoreOperationsOrdered ==
    /\ Precedes("create", "insert")
    /\ Precedes("insert", "commit")
    /\ Precedes("commit", "close")
    /\ Precedes("commit", "write_metadata")
    /\ Precedes("close", "write_metadata")
    /\ Cardinality(Positions("commit")) <= 1
    /\ Cardinality(Positions("close")) <= 1
    /\ Cardinality(Positions("write_metadata")) <= 1
    /\ Positions("insert") # {} => Targets("create") = Tables
    /\ Positions("commit") # {} => Targets("insert") = Tables
    /\ Positions("close") # {} => Positions("commit") # {}
    /\ Positions("write_metadata") # {} => Positions("close") # {}
    /\ Positions("commit") = {}
          => /\ doc = doc_before
             /\ store_before.file => store.rows = store_before.rows
             /\ ~store_before.file => store.rows \in {NoFile.rows, EmptyDb.rows}
    /\ Positions("write_metadata") = {} => doc = doc_before
    /\ Returned =>
          /\ Len(trace) = 2 * Len(Tables) + 3
          /\ Targets("create") = Tables
          /\ Targets("insert") = Tables
          /\ Cardinality(Positions("write_metadata")) = 1
          /\ trace[Len(trace)].op = "write_metadata"

\* A second run returns over the store the first run filled: its trace holds
\* the fifteen operations and the metadata document carries its time stamp.
C11_Witness ==
    /\ Returned
    /\ runs = 2
    /\ Len(trace) = 15
    /\ trace[13].op = "commit"
    /\ trace[15].op = "write_metadata"
    /\ doc.exists /\ doc.last_updated = clock
    /\ doc_before.exists /\ doc_before.last_updated = clock - 1

\* ---- the port the override URL writes

\* The port as resolved before the override URL is looked at.
PortBeforeUrl == IF "port" \in DOMAIN source THEN source.port ELSE Defaults.port

\* C12: the override URL alone never makes port validation fail: a port that
\* parse_mcp_server_url writes into the values lies in 1..65535 (a URL without
\* a port, with port 0, or one the parser rejects writes none), so a port that
\* was valid before the override URL leaves the record with a valid port.
C12_UrlNeverBreaksPort ==
    Finished =>
        /\ ~SameEntry(values, source, "port") => values.port \in 1..65535
        /\ (TheUrl # <<>> /\ (UrlParse(TheUrl).raises
                                  \/ ParsedPort(Netloc(TheUrl)).raises
                                  \/ ParsedPort(Netloc(TheUrl)).none
                                  \/ ParsedPort(Netloc(TheUrl)).val = 0))
              => SameEntry(values, source, "port")
        /\ PortBeforeUrl \in 1..65535
              => /\ "port" \notin errors
                 /\ ResolvedValue("port") \in 1..65535
                 /\ cpc = "constructed" /\ assigns = 0
                        => cfg.port \in 1..65535

\* Port 65535 was given and the override URL names port 65536: the parser
\* rejects it, a warning is logged and the record keeps port 65535.
C12_Witness ==
    /\ cpc = "constructed"
    /\ assigns = 0
    /\ TheUrl = UrlPortTooBig
    /\ "port" \in DOMAIN source /\ source.port = 65535
    /\ warnings = 1
    /\ cfg.port = 65535

====
